---- MODULE Spec2Model ----
(***************************************************************************)
(* Connection manager (CosmosClientManager), error normalizer (buildError) *)
(* and the controllers that use them, as a state machine.                  *)
(*                                                                         *)
(* The repository holds three versions of the manager:                     *)
(*   "key"    src/unnamed/part_000  (endpoint + key + databaseId)          *)
(*   "aad"    src/unnamed/part_001  (endpoint + databaseId + containerId   *)
(*                                   + partionKey, DefaultAzureCredential) *)
(*   "simple" src/tsp-output/server/src/azure/cosmos-client.ts             *)
(* The variable `variant` fixes which one a behaviour runs.                *)
(*                                                                         *)
(* JavaScript runs a call to completion up to its next await: one action   *)
(* is the code between two awaits.  Strings are sequences of tokens, so    *)
(* that template literals are concatenations.                              *)
(***************************************************************************)
EXTENDS Integers, Sequences, FiniteSets, TLC

VARIABLES
    variant,         \* which version of the manager runs
    client,          \* this.client: 0 is null, n > 0 the n-th CosmosClient built
    config,          \* this.config (NoConfig is null)
    isInitializing,  \* this.isInitializing
    databaseCache,   \* this.databaseCache / this.databases: dbId -> handle
    containerCache,  \* this.containerCache / this.containers: cacheKey -> handle
    inflight,        \* the calls suspended at an await
    ctl,             \* the controller: its arguments and its cached container
    calls,           \* number of calls issued so far
    last,            \* the call that completed last, as its caller saw it
    hist,            \* history kept for the properties
    norm,            \* the last call of buildError: its arguments and its result
    items            \* the documents of the store: <<db, container, id>> -> document

mgrVars == <<variant, client, config, isInitializing, databaseCache, containerCache>>
vars == <<variant, client, config, isInitializing, databaseCache, containerCache,
          inflight, ctl, calls, last, hist, norm, items>>

(***************************************************************************)
(* Bounds of the model.                                                    *)
(***************************************************************************)
MaxCalls == 4
MaxInFlight == 2

(***************************************************************************)
(* Values.                                                                 *)
(***************************************************************************)
Variants == {"key", "aad", "simple"}

\* an optional numeric property that is absent (undefined)
Undef == -1

\* identifiers are strings, written as sequences of characters
EmptyStr == << >>
DbA == <<"a">>
DbAB == <<"a", "-", "b">>
CtC == <<"c">>
CtBC == <<"b", "-", "c">>
DbIds == {DbA, DbAB}
CtIds == {CtC, CtBC}
PkId == <<"/id">>
PkOther == <<"/pk">>
\* the id of the widget the handlers are called with
W1 == <<"w1">>

\* a widget {id, weight, color}
Widget(id, weight, color) == [id |-> id, weight |-> weight, color |-> color]
Widget1 == Widget(W1, 1, "red")
Widget2 == Widget(W1, 2, "blue")
Widgets == {Widget1, Widget2}
NoWidget == Widget(EmptyStr, 0, "")

\* property names are strings too; a WidgetDocument has the properties of a
\* widget and the properties _ts and _etag the store adds
WidgetKeys == {<<"id">>, <<"weight">>, <<"color">>}
SystemKeys == {<<"_", "ts">>, <<"_", "etag">>}

\* an object with the values of w under the properties keys
Document(w, keys) == [id |-> w.id, weight |-> w.weight, color |-> w.color, keys |-> keys]

\* a failure value as buildError inspects it
Failure(codeT, code, statusCode, subStatusCode, message, name) ==
    [isNull |-> FALSE, codeT |-> codeT, code |-> code, statusCode |-> statusCode,
     subStatusCode |-> subStatusCode, message |-> message, name |-> name]

\* null / undefined
NullFailure ==
    [isNull |-> TRUE, codeT |-> "undefined", code |-> 0, statusCode |-> Undef,
     subStatusCode |-> Undef, message |-> EmptyStr, name |-> ""]

\* new Error(message)
JsError(message) == Failure("undefined", 0, Undef, Undef, message, "Error")

\* the WidgetError {code, message} buildError returns
WidgetError(code, message) == Failure("number", code, Undef, Undef, message, "")

\* no failure at all (the call returned)
NoErr == Failure("undefined", 0, Undef, Undef, EmptyStr, "none")

(***************************************************************************)
(* buildError of part_000 / part_001 (the two are the same text).          *)
(***************************************************************************)
ErrorMapCodes == {403, 404, 409, 412, 429, 503}

errorMap(code) ==
    CASE code = 403 -> <<"Forbidden: Insufficient permissions to access CosmosDB resource">>
      [] code = 404 -> <<"Not found: The requested resource doesn't exist">>
      [] code = 409 -> <<"Conflict: Resource already exists or version conflict">>
      [] code = 412 -> <<"Precondition failed: Operation cannot be performed due to current state">>
      [] code = 429 -> <<"Too many requests: Rate limit exceeded">>
      [] code = 503 -> <<"Service unavailable: CosmosDB is currently unavailable">>
      [] OTHER -> EmptyStr

\* JavaScript truthiness of err.code and err.statusCode; a code of type string
\* is written as a number, 0 for the empty string
TruthyCode(e) == e.codeT \in {"string", "number"} /\ e.code # 0
TruthyStatus(e) == e.statusCode # Undef /\ e.statusCode # 0

\* message.trim() === ''
IsBlank(message) == \A i \in 1..Len(message) : message[i] \in {"", " "}

\* `a || b` on strings
OrElse(a, b) == IF a # EmptyStr THEN a ELSE b

vendorCode(code) ==
    CASE code = 1001 -> 404
      [] code = 1008 -> 408
      [] code = 1009 -> 409
      [] code = 1029 -> 429
      [] OTHER -> code

detailedMessage(e) ==
    <<"Cosmos DB error: statusCode=", ToString(e.statusCode)>>
    \o (IF e.subStatusCode # Undef
        THEN <<", subStatusCode=", ToString(e.subStatusCode)>> ELSE << >>)
    \o (IF ~IsBlank(e.message) THEN <<" - ">> \o e.message ELSE << >>)

\* the failure's own message ahead of the table's
ownMessageFirst(e, defaultMessage) ==
    OrElse(e.message, OrElse(errorMap(e.statusCode), defaultMessage))

\* errorMap.get(code) || err.message || defaultMessage
structuredMessage(e, defaultMessage) ==
    OrElse(errorMap(e.statusCode), OrElse(e.message, defaultMessage))

\* only an AbortError is a network error
isAbortError(e) == e.name = "AbortError"

\* err.name === "AbortError" || err.name === "TimeoutError"
isNetworkError(e) == e.name \in {"AbortError", "TimeoutError"}

buildError(e, defaultMessage) ==
    IF e.isNull THEN WidgetError(500, defaultMessage)
    ELSE IF TruthyCode(e) /\ TruthyStatus(e)
    THEN WidgetError(e.statusCode, structuredMessage(e, defaultMessage))
    ELSE IF isNetworkError(e)
    THEN WidgetError(504, <<"Gateway timeout: CosmosDB operation timed out">>)
    ELSE IF e.statusCode # Undef
    THEN WidgetError(e.statusCode,
                     IF e.statusCode \in ErrorMapCodes
                     THEN errorMap(e.statusCode) ELSE detailedMessage(e))
    ELSE IF e.codeT = "number"
    THEN WidgetError(vendorCode(e.code),
                     OrElse(e.message,
                            OrElse(errorMap(vendorCode(e.code)), defaultMessage)))
    ELSE WidgetError(500, defaultMessage)

(***************************************************************************)
(* Configurations, handles and call records.                               *)
(***************************************************************************)
Cfg(endpoint, key, databaseId, containerId, partionKey) ==
    [isNull |-> FALSE, endpoint |-> endpoint, key |-> key, databaseId |-> databaseId,
     containerId |-> containerId, partionKey |-> partionKey]

\* this.config = null
NoConfig ==
    [isNull |-> TRUE, endpoint |-> "", key |-> "", databaseId |-> EmptyStr,
     containerId |-> EmptyStr, partionKey |-> EmptyStr]

ValidCfg == Cfg("https://ok", "k", DbA, CtC, PkId)
ValidCfg2 == Cfg("https://ok", "k", DbAB, CtC, PkId)
NoEndpointCfg == Cfg("", "k", DbA, CtC, PkId)
NoKeyCfg == Cfg("https://ok", "", DbA, CtC, PkId)
NoDbCfg == Cfg("https://ok", "k", EmptyStr, CtC, PkId)
NoCtCfg == Cfg("https://ok", "k", DbA, EmptyStr, PkId)
NoPkCfg == Cfg("https://ok", "k", DbA, CtC, EmptyStr)
BadEndpointCfg == Cfg("bad", "k", DbA, CtC, PkId)

\* the configurations a caller may pass; a version's CosmosConfig has only
\* the fields of its interface, the others are never read
ConfigsOf(v) ==
    CASE v = "key" -> {ValidCfg, ValidCfg2, NoEndpointCfg, NoKeyCfg, NoDbCfg, BadEndpointCfg}
      [] v = "aad" -> {ValidCfg, ValidCfg2, NoEndpointCfg, NoDbCfg, NoCtCfg, NoPkCfg,
                       BadEndpointCfg}
      [] OTHER -> {ValidCfg, NoEndpointCfg, BadEndpointCfg}

\* the fields the version's CosmosConfig interface declares, all of them required
RequiredFieldsEmpty(v, cfg) ==
    CASE v = "key" -> cfg.endpoint = "" \/ cfg.key = "" \/ cfg.databaseId = EmptyStr
      [] v = "aad" -> \/ cfg.endpoint = "" \/ cfg.databaseId = EmptyStr
                      \/ cfg.containerId = EmptyStr \/ cfg.partionKey = EmptyStr
      [] OTHER -> cfg.endpoint = ""

\* a Database or Container object: the client it belongs to, what it names,
\* and the store round trip that produced it (two round trips give two objects)
Handle(cl, db, ct, pk, rt) == [cl |-> cl, db |-> db, ct |-> ct, pk |-> pk, rt |-> rt]
NoHandle == Handle(0, EmptyStr, EmptyStr, EmptyStr, 0)

\* a call: its arguments, its locals while it is suspended, and its outcome
NewCall(op) ==
    [n |-> calls + 1, op |-> op, phase |-> "run",
     cfg |-> NoConfig, db |-> EmptyStr, ct |-> EmptyStr, pk |-> EmptyStr,
     key |-> EmptyStr, cl |-> client, dbh |-> NoHandle,
     hadClient |-> client # 0, constructed |-> FALSE, rts |-> 0,
     priorDb |-> FALSE, priorCt |-> FALSE, disposed |-> FALSE, again |-> FALSE,
     kind |-> "none", err |-> NoErr, handle |-> NoHandle, logged |-> NoErr,
     hop |-> "", id |-> EmptyStr, w |-> NoWidget, store |-> "", value |-> {},
     impl |-> "", req |-> "", ops |-> 0]

NoCall == [NewCall("none") EXCEPT !.n = 0, !.cl = 0, !.hadClient = FALSE]

Returned(c, h) == [c EXCEPT !.phase = "done", !.kind = "return", !.handle = h]
Thrown(c, e) == [c EXCEPT !.phase = "done", !.kind = "throw", !.err = e]
\* a handler that lets the failure e through to its caller
Rethrown(c, e) == [c EXCEPT !.phase = "done", !.kind = "throw", !.err = e]

\* a handler returns the WidgetError e as its value
ReturnedError(c, e) == [c EXCEPT !.phase = "done", !.kind = "error", !.err = e]

(***************************************************************************)
(* initialize.                                                             *)
(***************************************************************************)
\* validateConfig: the message of the Error it throws, EmptyStr when it returns
validateConfigKey(cfg) ==
    IF cfg.endpoint = "" THEN <<"CosmosDB endpoint is required">>
    ELSE IF cfg.key = "" THEN <<"CosmosDB key is required">>
    ELSE IF cfg.databaseId = EmptyStr THEN <<"CosmosDB databaseId is required">>
    ELSE EmptyStr

validateConfigAad(cfg) ==
    IF cfg.endpoint = "" THEN <<"CosmosDB endpoint is required">>
    ELSE IF cfg.databaseId = EmptyStr THEN <<"CosmosDB databaseId is required">>
    ELSE IF cfg.containerId = EmptyStr THEN <<"CosmosDB containerId is required">>
    ELSE EmptyStr

validateConfig(cfg) ==
    IF variant = "key" THEN validateConfigKey(cfg) ELSE validateConfigAad(cfg)

\* new CosmosClient({endpoint, ...}) throws on an endpoint that is no URL
CosmosClientThrows(endpoint) == endpoint # "https://ok"
InvalidEndpointError == JsError(<<"Invalid endpoint url">>)

InitFailedMsg == <<"Failed to initialize CosmosDB client">>

\* what the catch block of initialize throws for `error`
initializeCatch(error) == buildError(error, InitFailedMsg)

\* how a call of initialize ends: what it throws or returns, whether it built a
\* client (constructed) and whether it assigned this.config (stored)
InitOutcome(kind, err, constructed, stored) ==
    [kind |-> kind, err |-> err, constructed |-> constructed, stored |-> stored]

\* a try block whose failure is logged and not thrown
initializeSwallow(cfg) ==
    IF validateConfig(cfg) # EmptyStr \/ CosmosClientThrows(cfg.endpoint)
    THEN InitOutcome("return", NoErr, FALSE, FALSE)
    ELSE InitOutcome("return", NoErr, TRUE, TRUE)

\* the try block of initialize (part_000:56-76, part_001:58-80), run to its end:
\* the block has no await, so isInitializing is false again when it is left
initializeTry(cfg) ==
    IF validateConfig(cfg) # EmptyStr
    THEN InitOutcome("throw", initializeCatch(JsError(validateConfig(cfg))), FALSE, FALSE)
    ELSE IF CosmosClientThrows(cfg.endpoint)
    THEN InitOutcome("throw", initializeCatch(InvalidEndpointError), FALSE, TRUE)
    ELSE InitOutcome("return", NoErr, TRUE, TRUE)

\* initialize of part_000 and part_001
initializeFlag(cfg) ==
    IF client # 0 THEN InitOutcome("return", NoErr, FALSE, FALSE)
    ELSE IF isInitializing THEN InitOutcome("wait", NoErr, FALSE, FALSE)
    ELSE initializeTry(cfg)

\* initialize(endpoint) of cosmos-client.ts
initializeSimple(cfg) ==
    IF CosmosClientThrows(cfg.endpoint)
    THEN InitOutcome("throw", JsError(<<"Failed to initialize Cosmos DB client">>),
                     FALSE, FALSE)
    ELSE InitOutcome("return", NoErr, TRUE, FALSE)

initialize(cfg) ==
    IF variant = "simple" THEN initializeSimple(cfg) ELSE initializeFlag(cfg)

\* the assignments of a call of initialize that ended as o
InitializeEffect(o, cfg) ==
    /\ client' = IF o.constructed THEN hist.built + 1 ELSE client
    /\ config' = IF o.stored THEN cfg ELSE config
    /\ hist' = IF o.constructed
               THEN [hist EXCEPT !.built = @ + 1, !.live = @ + 1]
               ELSE hist
    /\ UNCHANGED isInitializing

Initialize(cfg) ==
    /\ calls < MaxCalls
    /\ cfg \in ConfigsOf(variant)
    /\ calls' = calls + 1
    /\ LET o == initialize(cfg)
           c == [NewCall("initialize") EXCEPT !.cfg = cfg, !.constructed = o.constructed]
       IN  /\ InitializeEffect(o, cfg)
           /\ IF o.kind = "wait"
              THEN /\ inflight' = inflight \cup {[c EXCEPT !.phase = "initWait"]}
                   /\ UNCHANGED last
              ELSE /\ last' = IF o.kind = "throw" THEN Thrown(c, o.err)
                                                  ELSE Returned(c, NoHandle)
                   /\ UNCHANGED inflight
    /\ UNCHANGED <<variant, databaseCache, containerCache, ctl, norm, items>>

(***************************************************************************)
(* dispose (part_000:154-169, part_001:183-198).                           *)
(***************************************************************************)
Dispose ==
    /\ calls < MaxCalls
    /\ variant # "simple"
    /\ calls' = calls + 1
    /\ IF client # 0
       THEN /\ databaseCache' = << >>
            /\ containerCache' = << >>
            /\ client' = 0
       ELSE UNCHANGED <<client, databaseCache, containerCache>>
    /\ inflight' = {[c EXCEPT !.disposed = TRUE] : c \in inflight}
    /\ hist' = [hist EXCEPT !.live = 0, !.dbOk = {}, !.ctOk = {}, !.ctOkStrict = {}]
    /\ last' = Returned(NewCall("dispose"), NoHandle)
    /\ UNCHANGED <<variant, config, isInitializing, ctl, norm, items>>

(***************************************************************************)
(* The store, seen from the manager: createIfNotExists requests.           *)
(***************************************************************************)
\* the failures a store request may end with
StoreUnavailable == Failure("undefined", 0, 503, Undef, <<"unavailable">>, "Error")
StoreTimeout == Failure("undefined", 0, Undef, Undef, <<"timed out">>, "TimeoutError")
StoreFailures == {StoreUnavailable, StoreTimeout}

\* the store creates nothing under an empty id
StoreAccepts(c) == IF c.phase = "ctWait" THEN c.ct # EmptyStr ELSE c.db # EmptyStr

(***************************************************************************)
(* getDatabase.                                                            *)
(***************************************************************************)
NotInitializedMsg ==
    IF variant = "simple"
    THEN <<"Cosmos client not initialized">>
    ELSE <<"CosmosDB client is not initialized. Call initialize() first">>

\* databaseId || this.config?.databaseId
resolveDbId(databaseId) ==
    IF variant = "simple" THEN databaseId ELSE OrElse(databaseId, config.databaseId)

\* the part of getDatabase before its await: "throw", "hit" or "miss"
getDatabaseSync(databaseId) ==
    IF client = 0 THEN "throw"
    ELSE IF variant # "simple" /\ resolveDbId(databaseId) = EmptyStr THEN "throw"
    ELSE IF resolveDbId(databaseId) \in DOMAIN databaseCache THEN "hit"
    ELSE "miss"

\* the Error that part throws
getDatabaseSyncError(databaseId) ==
    IF client = 0 THEN JsError(NotInitializedMsg)
    ELSE JsError(<<"Database ID is required">>)

\* what getDatabase throws when createIfNotExists failed with f
getDatabaseCatch(f, dbId) ==
    IF variant = "simple"
    THEN JsError(<<"Failed to get database ">> \o dbId)
    ELSE buildError(f, <<"Failed to get or create database ">> \o dbId)

GetDatabase(databaseId) ==
    /\ calls < MaxCalls
    /\ databaseId \in DbIds \cup {EmptyStr}
    /\ calls' = calls + 1
    /\ LET dbId == resolveDbId(databaseId)
           c == [NewCall("getDatabase") EXCEPT !.db = dbId,
                                               !.priorDb = dbId \in hist.dbOk]
       IN  CASE getDatabaseSync(databaseId) = "throw" ->
                  /\ last' = Thrown(c, getDatabaseSyncError(databaseId))
                  /\ UNCHANGED <<inflight, hist>>
             [] getDatabaseSync(databaseId) = "hit" ->
                  /\ last' = Returned(c, databaseCache[dbId])
                  /\ hist' = [hist EXCEPT !.dbOk = @ \cup {dbId}]
                  /\ UNCHANGED inflight
             [] OTHER ->
                  /\ Cardinality(inflight) < MaxInFlight
                  /\ inflight' = inflight \cup {[c EXCEPT !.phase = "dbWait", !.rts = 1]}
                  /\ UNCHANGED <<last, hist>>
    /\ UNCHANGED <<mgrVars, ctl, norm, items>>

(***************************************************************************)
(* getContainer.                                                           *)
(***************************************************************************)
\* `${databaseId || this.config?.databaseId}-${containerId}`
cacheKey(databaseId, containerId) ==
    (IF variant = "simple" THEN databaseId
     ELSE IF databaseId # EmptyStr THEN databaseId
     ELSE IF config.isNull THEN <<"undefined">>
     ELSE config.databaseId)
    \o <<"-">> \o containerId

\* the argument checks of part_001:144-150; EmptyStr when they pass
getContainerArgError(databaseId, containerId) ==
    IF variant # "aad" THEN EmptyStr
    ELSE IF databaseId = EmptyStr THEN <<"databaseId is required">>
    ELSE IF containerId = EmptyStr THEN <<"containerId is required">>
    ELSE EmptyStr

\* a catch block that throws what it caught
getContainerRethrow(error, containerId) == error

\* what the catch block of getContainer throws for `error`
getContainerCatch(error, containerId) ==
    CASE variant = "simple" -> JsError(<<"Failed to get container ">> \o containerId)
      [] variant = "aad" ->
           buildError(error, <<"getContainer Failed to get or create container ">>
                             \o containerId)
      [] OTHER -> buildError(error, <<"Failed to get or create container ">> \o containerId)

(***************************************************************************)
(* The controllers' side of a failure.                                     *)
(***************************************************************************)
\* buildError of cosmos-client.ts
buildErrorSimple(e, defaultMessage) ==
    LET message == OrElse(defaultMessage, <<"An unknown error occurred">>)
    IN  IF e.isNull THEN WidgetError(500, message)
        ELSE IF e.statusCode # Undef
        THEN WidgetError(vendorCode(e.statusCode), detailedMessage(e))
        ELSE IF e.codeT = "number"
        THEN WidgetError(vendorCode(e.code),
                         IF ~IsBlank(e.message) THEN e.message ELSE message)
        ELSE WidgetError(500, message)

\* the buildError the controller of the running version imports
controllerBuildError(e, defaultMessage) ==
    IF variant = "simple" THEN buildErrorSimple(e, defaultMessage)
                          ELSE buildError(e, defaultMessage)

\* the object literal {statusCode: n}
StatusOnly(n) == Failure("undefined", 0, n, Undef, EmptyStr, "")

\* what ensureContainer (the private getContainer of WidgetsCosmosImpl) throws
\* when the manager's getContainer threw e
ensureContainerCatch(e, cfg) ==
    IF variant = "simple" THEN e
    ELSE buildError(e, <<"Failed to access container ">> \o cfg.containerId)

\* the WidgetError the catch block of handler hop returns for `error`
handlerCatch(hop, id, error) ==
    CASE hop = "list" -> controllerBuildError(error, <<"Failed to list widgets">>)
      [] hop = "read" -> controllerBuildError(error, <<"Failed to read widget ">> \o id)
      [] hop = "create" ->
           IF ~error.isNull /\ error.statusCode = 409
           THEN controllerBuildError(StatusOnly(409),
                                     <<"Widget with id ">> \o id \o <<" already exists">>)
           ELSE controllerBuildError(error, <<"Failed to create widget ">> \o id)
      [] OTHER ->
           IF ~error.isNull /\ error.statusCode = 404
           THEN controllerBuildError(StatusOnly(404),
                                     <<"Widget with id ">> \o id \o <<" not found">>)
           ELSE controllerBuildError(error, <<"Failed to delete widget ">> \o id)

\* what a handler returns when the store answered without a resource
handlerNoResource(hop, id) ==
    IF hop = "read"
    THEN controllerBuildError(StatusOnly(404),
                              <<"Widget with id ">> \o id \o <<" not found">>)
    ELSE controllerBuildError(StatusOnly(500),
                              <<"Failed to create widget ">> \o id
                              \o <<": No resource returned">>)

\* a call of getContainer ends, for its caller: the caller of the manager
\* (c.hop = "") sees it return h or throw e; a handler goes on with the
\* container it got (ensureContainer / the controller's getContainer), or
\* returns the failure as a value.  `rest` is the other suspended calls.
\* the class of the controller: WidgetsCosmosController (widgets-cosmos.ts
\* and part_002), WidgetsCosmosImpl of widgets-cosmos.ts ("impl") and
\* WidgetsCosmosImpl of main.tsp, which returns Result values ("result")
Impls(v) == IF v = "simple" THEN {"impl", "result"} ELSE {"controller"}
DefaultImpl == IF variant = "simple" THEN "impl" ELSE "controller"

\* isCosmosError of main.tsp
isCosmosError(e) == ~e.isNull /\ (e.codeT = "number" \/ e.statusCode # Undef)

\* createError(isCosmosError(error) ? error.code || error.statusCode || 500 : 500,
\*             message) of main.tsp
resultError(e, message) ==
    IF isCosmosError(e) /\ TruthyCode(e)
    THEN Failure(e.codeT, e.code, Undef, Undef, message, "")
    ELSE IF isCosmosError(e) /\ TruthyStatus(e)
    THEN WidgetError(e.statusCode, message)
    ELSE WidgetError(500, message)

\* the message a handler of main.tsp gives a failure of its store request
operationMessage(hop, id) ==
    CASE hop = "list" -> <<"Failed to list widgets">>
      [] hop = "read" -> <<"Failed to read widget ">> \o id
      [] hop = "create" -> <<"Failed to create widget ">> \o id
      [] OTHER -> <<"Failed to delete widget ">> \o id

\* the first request a handler sends to its container: create and delete of
\* main.tsp read the item first
firstRequest(c) ==
    IF c.impl = "result" /\ c.hop \in {"create", "delete"} THEN "read" ELSE c.hop

\* the handler c waits for the answer to its first request on container h
awaitingStore(c, h) ==
    [c EXCEPT !.phase = "opWait", !.handle = h, !.req = firstRequest(c), !.ops = 1]

getContainerDone(c, rest, ok, h, e) ==
    IF c.hop = ""
    THEN /\ last' = IF ok THEN Returned(c, h) ELSE Thrown(c, e)
         /\ inflight' = rest
         /\ UNCHANGED ctl
    ELSE IF ok
    THEN /\ ctl' = [ctl EXCEPT !.containerInitialized = TRUE,
                               !.container = IF variant = "key" THEN @ ELSE h]
         /\ inflight' = rest \cup {awaitingStore(c, h)}
         /\ UNCHANGED last
    ELSE /\ last' = IF c.impl = "result"
                    THEN ReturnedError(c, resultError(
                             e, <<"Failed to initialize Cosmos DB resources">>))
                    ELSE ReturnedError(c, handlerCatch(c.hop, c.id,
                                                      ensureContainerCatch(e, c.cfg)))
         /\ inflight' = rest
         /\ UNCHANGED ctl

\* a lookup that hands out a handle of its own making
containerCacheMake(key) == [containerCache[key] EXCEPT !.rt = calls + 1]

\* this.containerCache.get(cacheKey)!
containerCacheGet(key) == containerCache[key]

\* a creation request for the pair was sent before, and none is pending
answeredBefore(dbId, containerId) ==
    /\ <<dbId, containerId>> \in hist.ctAsked
    /\ \A d \in inflight : ~(d.phase = "ctWait" /\ d.db = dbId /\ d.ct = containerId)

\* getContainer up to its first await, for the call c0 with these arguments
getContainerBegin(c0, containerId, databaseId, partitionKey) ==
    LET dbId == resolveDbId(databaseId)
        key == cacheKey(databaseId, containerId)
        \* the arguments pass the argument checks and name a pair
        named == getContainerArgError(databaseId, containerId) = EmptyStr
        c == [c0 EXCEPT
                 !.db = IF named THEN dbId ELSE databaseId,
                 !.ct = containerId, !.pk = partitionKey, !.key = key,
                 !.priorDb = named /\ dbId \in hist.dbOk,
                 !.priorCt = named /\ <<dbId, containerId>> \in hist.ctOkStrict]
    IN  CASE getContainerArgError(databaseId, containerId) # EmptyStr ->
               /\ getContainerDone(c, inflight, FALSE, NoHandle,
                                   JsError(getContainerArgError(databaseId, containerId)))
               /\ UNCHANGED hist
          [] getContainerArgError(databaseId, containerId) = EmptyStr
             /\ key \in DOMAIN containerCache ->
               /\ getContainerDone(c, inflight, TRUE, containerCacheGet(key), NoErr)
               /\ hist' = [hist EXCEPT !.ctOk = @ \cup {<<dbId, containerId>>},
                                       !.ctOkStrict = @ \cup {<<dbId, containerId>>}]
          [] OTHER ->
               CASE getDatabaseSync(databaseId) = "throw" ->
                      /\ getContainerDone(c, inflight, FALSE, NoHandle,
                                          getContainerCatch(getDatabaseSyncError(databaseId),
                                                            containerId))
                      /\ UNCHANGED hist
                 [] getDatabaseSync(databaseId) = "hit" ->
                      /\ Cardinality(inflight) < MaxInFlight
                      /\ inflight' = inflight \cup
                            {[c EXCEPT !.phase = "ctWait", !.rts = 1,
                                       !.dbh = databaseCache[dbId],
                                       !.again = answeredBefore(dbId, containerId)]}
                      /\ hist' = [hist EXCEPT !.dbOk = @ \cup {dbId},
                                              !.ctAsked = @ \cup {<<dbId, containerId>>}]
                      /\ UNCHANGED <<last, ctl>>
                 [] OTHER ->
                      /\ Cardinality(inflight) < MaxInFlight
                      /\ inflight' = inflight \cup
                            {[c EXCEPT !.phase = "ctDbWait", !.rts = 1]}
                      /\ UNCHANGED <<last, hist, ctl>>

GetContainer(containerId, databaseId, partitionKey) ==
    /\ calls < MaxCalls
    /\ containerId \in CtIds \cup {EmptyStr}
    /\ databaseId \in DbIds \cup {EmptyStr}
    /\ partitionKey \in (IF variant = "simple" THEN {EmptyStr} ELSE {PkId, PkOther})
    /\ calls' = calls + 1
    /\ getContainerBegin(NewCall("getContainer"), containerId, databaseId, partitionKey)
    /\ UNCHANGED <<mgrVars, norm, items>>

(***************************************************************************)
(* A suspended call resumes: the store answers its request (ok, or the     *)
(* failure f), or the wait loop of initialize polls the flag.              *)
(***************************************************************************)
DatabaseHandle(c) == Handle(c.cl, c.db, EmptyStr, EmptyStr, c.n)
ContainerHandle(c) == Handle(c.dbh.cl, c.db, c.ct, c.pk, c.n)

\* this.databaseCache.set(dbId, database)
databaseCacheSet(c) ==
    IF c.db \in DOMAIN databaseCache
    THEN [databaseCache EXCEPT ![c.db] = DatabaseHandle(c)]
    ELSE databaseCache @@ (c.db :> DatabaseHandle(c))

\* a container cache that forgets what it is given
containerCacheForget(c) == containerCache

\* this.containerCache.set(cacheKey, container)
containerCacheSet(c) ==
    IF c.key \in DOMAIN containerCache
    THEN [containerCache EXCEPT ![c.key] = ContainerHandle(c)]
    ELSE containerCache @@ (c.key :> ContainerHandle(c))

\* the loop `while (this.isInitializing) await sleep(100)` of initialize
ResumeInitWait(c) ==
    /\ IF isInitializing
       THEN UNCHANGED <<inflight, last>>
       ELSE /\ inflight' = inflight \ {c}
            /\ last' = Returned(c, NoHandle)
    /\ UNCHANGED <<databaseCache, containerCache, hist, ctl>>

\* getDatabase after `await this.client.databases.createIfNotExists`
ResumeGetDatabase(c, ok, f) ==
    /\ inflight' = inflight \ {c}
    /\ IF ok
       THEN /\ databaseCache' = databaseCacheSet(c)
            /\ last' = Returned(c, DatabaseHandle(c))
            /\ hist' = [hist EXCEPT !.dbOk = @ \cup {c.db}]
       ELSE /\ last' = Thrown(c, getDatabaseCatch(f, c.db))
            /\ UNCHANGED <<databaseCache, hist>>
    /\ UNCHANGED <<containerCache, ctl>>

\* getContainer after `await this.getDatabase(databaseId)`: on success it goes on
\* to `await database.containers.createIfNotExists`
ResumeGetContainerDb(c, ok, f) ==
    /\ IF ok
       THEN /\ databaseCache' = databaseCacheSet(c)
            /\ inflight' = (inflight \ {c}) \cup
                  {[c EXCEPT !.phase = "ctWait", !.rts = 2, !.dbh = DatabaseHandle(c),
                             !.again = answeredBefore(c.db, c.ct)]}
            /\ hist' = [hist EXCEPT !.dbOk = @ \cup {c.db},
                                    !.ctAsked = @ \cup {<<c.db, c.ct>>}]
            /\ UNCHANGED <<last, ctl>>
       ELSE /\ getContainerDone(c, inflight \ {c}, FALSE, NoHandle,
                                getContainerCatch(getDatabaseCatch(f, c.db), c.ct))
            /\ UNCHANGED <<databaseCache, hist>>
    /\ UNCHANGED containerCache

\* getContainer after `await database.containers.createIfNotExists`
ResumeGetContainer(c, ok, f) ==
    /\ IF ok
       THEN /\ containerCache' = containerCacheSet(c)
            /\ getContainerDone(c, inflight \ {c}, TRUE, ContainerHandle(c), NoErr)
            /\ hist' = [hist EXCEPT
                          !.ctOk = @ \cup {<<c.db, c.ct>>},
                          !.ctOkStrict = IF c.disposed THEN @ ELSE @ \cup {<<c.db, c.ct>>}]
       ELSE /\ getContainerDone(c, inflight \ {c}, FALSE, NoHandle,
                                getContainerCatch(f, c.ct))
            /\ UNCHANGED <<containerCache, hist>>
    /\ UNCHANGED databaseCache

Resume(c, ok, f) ==
    /\ c \in inflight
    /\ c.phase # "opWait"
    /\ ok => StoreAccepts(c)
    /\ CASE c.phase = "initWait" -> ResumeInitWait(c)
         [] c.phase = "dbWait" -> ResumeGetDatabase(c, ok, f)
         [] c.phase = "ctDbWait" -> ResumeGetContainerDb(c, ok, f)
         [] OTHER -> ResumeGetContainer(c, ok, f)
    /\ UNCHANGED <<variant, client, config, isInitializing, calls, norm, items>>

(***************************************************************************)
(* The constructor of the controller that goes with each manager:          *)
(*   "aad"     WidgetsCosmosController, widgets-cosmos.ts:190-213          *)
(*   "key"     WidgetsCosmosController, part_002:29-38                     *)
(*   "simple"  WidgetsCosmosImpl, widgets-cosmos.ts:19-25                  *)
(* Its arguments are the fields of cfg.                                    *)
(***************************************************************************)
\* the argument checks of the constructor; EmptyStr when they pass
controllerArgError(cfg) ==
    IF variant = "simple" THEN EmptyStr
    ELSE IF cfg.endpoint = "" THEN <<"azureCosmosEndpoint is required">>
    ELSE IF cfg.databaseId = EmptyStr THEN <<"databaseId is required">>
    ELSE IF cfg.containerId = EmptyStr THEN <<"containerId is required">>
    ELSE IF variant = "aad" /\ cfg.partionKey = EmptyStr
    THEN <<"partitionKey is required">>
    ELSE EmptyStr

\* how the constructor ends, given how its call of initialize ended (o):
\* the "aad" controller logs a rejection and returns, the "simple" one lets
\* the Error of the synchronous initialize through
controllerNewResult(c, o) ==
    IF o.kind = "throw"
    THEN IF variant = "aad" THEN Returned([c EXCEPT !.logged = o.err], NoHandle)
                            ELSE Thrown(c, o.err)
    ELSE Returned(c, NoHandle)

\* the controller as its constructor leaves it
NoController == [made |-> FALSE, cfg |-> NoConfig, containerInitialized |-> FALSE,
                 container |-> NoHandle, impl |-> ""]
NewController(cfg, impl) ==
    [made |-> TRUE, cfg |-> cfg, containerInitialized |-> FALSE,
     container |-> NoHandle, impl |-> impl]

ControllerNew(cfg, impl) ==
    /\ calls < MaxCalls
    /\ cfg \in ConfigsOf(variant)
    /\ impl \in Impls(variant)
    /\ calls' = calls + 1
    /\ LET c == [NewCall("new") EXCEPT !.cfg = cfg]
       IN  IF controllerArgError(cfg) # EmptyStr
           THEN /\ last' = Thrown(c, JsError(controllerArgError(cfg)))
                /\ UNCHANGED <<client, config, isInitializing, inflight, hist, ctl>>
           ELSE IF variant = "key"
           THEN /\ last' = Returned(c, NoHandle)
                /\ ctl' = NewController(cfg, impl)
                /\ UNCHANGED <<client, config, isInitializing, inflight, hist>>
           ELSE LET o == initialize(cfg)
                IN  /\ InitializeEffect(o, cfg)
                    /\ last' = controllerNewResult(
                                  [c EXCEPT !.constructed = o.constructed], o)
                    /\ ctl' = IF last'.kind = "throw" THEN ctl ELSE NewController(cfg, impl)
                    /\ inflight' = IF o.kind = "wait"
                                   THEN inflight \cup
                                        {[NewCall("initialize") EXCEPT
                                             !.cfg = cfg, !.phase = "initWait"]}
                                   ELSE inflight
    /\ UNCHANGED <<variant, databaseCache, containerCache, norm, items>>

(***************************************************************************)
(* The handlers list, read, create and delete of the controller            *)
(* (widgets-cosmos.ts:62-159 and 248-337, part_002:71-176): ensureContainer *)
(* and then one request to the container.                                  *)
(***************************************************************************)
Handlers == {"list", "read", "create", "delete"}

\* the controller holds a container and does not ask the manager
controllerHasContainer ==
    CASE variant = "simple" -> ctl.container # NoHandle
      [] variant = "aad" -> ctl.containerInitialized /\ ctl.container # NoHandle
      [] OTHER -> FALSE

\* the arguments <<containerId, databaseId, partitionKey>> ensureContainer
\* passes to the manager's getContainer, by position
ensureContainerArgs ==
    CASE variant = "simple" -> <<ctl.cfg.containerId, ctl.cfg.databaseId, EmptyStr>>
      [] variant = "aad" -> <<ctl.cfg.containerId, ctl.cfg.databaseId, ctl.cfg.partionKey>>
      [] OTHER -> IF ~ctl.containerInitialized
                  THEN <<(<<ctl.cfg.endpoint>>), ctl.cfg.containerId, ctl.cfg.databaseId>>
                  ELSE <<ctl.cfg.containerId, ctl.cfg.databaseId, PkId>>

Handler(hop, w) ==
    /\ calls < MaxCalls
    /\ hop \in Handlers
    /\ w \in Widgets
    /\ ctl.made
    /\ Cardinality(inflight) < MaxInFlight
    /\ calls' = calls + 1
    /\ LET c == [NewCall(hop) EXCEPT !.hop = hop, !.id = w.id, !.w = w, !.cfg = ctl.cfg,
                                     !.impl = ctl.impl]
       IN  IF controllerHasContainer
           THEN /\ inflight' = inflight \cup {awaitingStore(c, ctl.container)}
                /\ UNCHANGED <<last, hist, ctl>>
           ELSE getContainerBegin(c, ensureContainerArgs[1], ensureContainerArgs[2],
                                  ensureContainerArgs[3])
    /\ UNCHANGED <<mgrVars, norm, items>>

\* the failures the store throws for an id that exists already / is not there
StoreConflict ==
    Failure("number", 409, 409, Undef,
            <<"Entity with the specified id already exists in the system.">>, "Error")
StoreNotFound ==
    Failure("number", 404, 404, Undef,
            <<"Entity with the specified id does not exist in the system.">>, "Error")

\* the place of the handler's widget in the store
ItemKey(c) == <<c.handle.db, c.handle.ct, c.id>>

\* the document the store keeps for newWidget = {id, weight, color}
storedDocument(w) == Document(w, WidgetKeys \cup SystemKeys)

\* the store with the document of w at place k / without a document at k
itemsPut(k, w) ==
    [x \in DOMAIN items \cup {k} |-> IF x = k THEN storedDocument(w) ELSE items[x]]
itemsRemove(k) == [x \in DOMAIN items \ {k} |-> items[x]]

\* the request of handler c reaches the container.  The store answers it from
\* its documents ("ok"), answers without a resource ("none": a read of an id
\* that is not there, a create whose response carries no content), or fails
\* with f ("fail").  The answer is: what it is called (store), whether the
\* request threw and what, the resources it carries, and the documents after.
StoreAnswer(c, ans, f) ==
    LET k == ItemKey(c)
        there == k \in DOMAIN items
        answer(store, threw, err, resources, after) ==
            [store |-> store, threw |-> threw, err |-> err, resources |-> resources,
             items |-> after]
    IN  IF ans = "fail" THEN answer("fail", TRUE, f, {}, items)
        ELSE CASE c.req = "list" ->
                    answer("ok", FALSE, NoErr,
                           {items[x] : x \in {y \in DOMAIN items :
                                                 y[1] = k[1] /\ y[2] = k[2]}},
                           items)
               [] c.req = "read" ->
                    IF there THEN answer("ok", FALSE, NoErr, {items[k]}, items)
                    ELSE IF ans = "none" THEN answer("none", FALSE, NoErr, {}, items)
                    ELSE answer("notfound", TRUE, StoreNotFound, {}, items)
               [] c.req = "create" ->
                    IF there THEN answer("conflict", TRUE, StoreConflict, {}, items)
                    ELSE IF ans = "none"
                    THEN answer("none", FALSE, NoErr, {}, itemsPut(k, c.w))
                    ELSE answer("ok", FALSE, NoErr, {storedDocument(c.w)},
                                itemsPut(k, c.w))
               [] OTHER ->
                    IF there THEN answer("ok", FALSE, NoErr, {}, itemsRemove(k))
                    ELSE answer("notfound", TRUE, StoreNotFound, {}, items)

\* documentToWidget: {id: doc.id, weight: doc.weight, color: doc.color}
documentToWidgetPick(doc) == [doc EXCEPT !.keys = WidgetKeys]

\* documentToWidget: the entries of doc whose key does not start with '_'
documentToWidgetFilter(doc) == [doc EXCEPT !.keys = {key \in @ : key[1] # "_"}]

\* a documentToWidget that lets every entry through
documentToWidgetAll(doc) == doc

documentToWidget(doc) ==
    IF variant = "aad" THEN documentToWidgetFilter(doc) ELSE documentToWidgetPick(doc)

\* what the handler returns for the resources the store answered with
handlerValue(c, resources) ==
    CASE c.hop = "list" -> {documentToWidget(doc) : doc \in resources}
      [] c.hop = "read" ->
           IF variant = "key" THEN resources
           ELSE {documentToWidget(doc) : doc \in resources}
      [] c.hop = "create" ->
           CASE variant = "key" -> resources
             [] variant = "aad" -> {documentToWidget(Document(c.w, WidgetKeys))}
             [] OTHER -> {documentToWidget(doc) : doc \in resources}
      [] OTHER -> {}

\* the widgets created and not deleted since, by their place in the store
createdAfter(c, o) ==
    LET k == ItemKey(c)
    IN  IF o.threw THEN hist.created
        ELSE CASE c.req = "create" ->
                    [x \in DOMAIN hist.created \cup {k} |->
                        IF x = k THEN c.w ELSE hist.created[x]]
               [] c.req = "delete" ->
                    [x \in DOMAIN hist.created \ {k} |-> hist.created[x]]
               [] OTHER -> hist.created

\* how a handler of main.tsp goes on after the answer o to its request: it
\* returns (more = FALSE, call = the call as it ends) or sends the request
\* `next` (more = TRUE)
resultStep(d, o) ==
    LET ends(call) == [more |-> FALSE, call |-> call, next |-> ""]
        goesOn(req) == [more |-> TRUE, call |-> d, next |-> req]
        notFound == WidgetError(404, <<"Widget with id ">> \o d.id \o <<" not found">>)
        exists == WidgetError(409, <<"Widget with id ">> \o d.id \o <<" already exists">>)
        value == [Returned(d, d.handle) EXCEPT
                     !.value = {documentToWidgetPick(doc) : doc \in o.resources}]
    IN  IF o.threw
        THEN ends(ReturnedError(d, resultError(o.err, operationMessage(d.hop, d.id))))
        ELSE CASE d.req = "list" -> ends(value)
               [] d.req = "read" /\ d.hop = "read" ->
                    IF o.resources = {} THEN ends(ReturnedError(d, notFound))
                    ELSE ends(value)
               [] d.req = "read" /\ d.hop = "create" ->
                    IF o.resources # {} THEN ends(ReturnedError(d, exists))
                    ELSE goesOn("create")
               [] d.req = "read" /\ d.hop = "delete" ->
                    IF o.resources = {} THEN ends(ReturnedError(d, notFound))
                    ELSE goesOn("delete")
               [] d.req = "create" ->
                    \* documentToWidget(undefined) throws a TypeError
                    IF o.resources = {}
                    THEN ends(ReturnedError(d, resultError(
                                  JsError(<<"Cannot read properties of undefined">>),
                                  operationMessage(d.hop, d.id))))
                    ELSE ends(value)
               [] OTHER -> ends([Returned(d, d.handle) EXCEPT !.value = {}])

\* how a handler of widgets-cosmos.ts / part_002 returns after the answer o
handlerEnd(d, o) ==
    IF o.threw
    THEN ReturnedError(d, handlerCatch(d.hop, d.id, o.err))
    ELSE IF d.hop \in {"read", "create"} /\ o.resources = {}
    THEN ReturnedError(d, handlerNoResource(d.hop, d.id))
    ELSE [Returned(d, d.handle) EXCEPT !.value = handlerValue(d, o.resources)]

\* the container answers the handler's request; the handler returns or (in
\* main.tsp) sends its second request
ResumeHandler(c, ans, f) ==
    /\ c \in inflight
    /\ c.phase = "opWait"
    /\ ans \in {"ok", "none", "fail"}
    /\ ans = "none" => c.req \in {"read", "create"} /\ ItemKey(c) \notin DOMAIN items
    /\ LET o == StoreAnswer(c, ans, f)
           d == [c EXCEPT !.store = o.store]
           r == resultStep(d, o)
       IN  /\ items' = o.items
           /\ hist' = [hist EXCEPT !.created = createdAfter(c, o)]
           /\ IF c.impl = "result" /\ r.more
              THEN /\ inflight' = (inflight \ {c}) \cup
                                  {[d EXCEPT !.req = r.next, !.ops = @ + 1]}
                   /\ UNCHANGED last
              ELSE /\ inflight' = inflight \ {c}
                   /\ last' = IF c.impl = "result" THEN r.call ELSE handlerEnd(d, o)
    /\ UNCHANGED <<mgrVars, ctl, calls, norm>>

(***************************************************************************)
(* buildError called on its own: the failures and default messages it is   *)
(* given.                                                                  *)
(***************************************************************************)
\* err.code: absent, a string ("" or not), or a number
FailureCodes ==
    {<<"undefined", 0>>, <<"string", 0>>, <<"string", 1>>, <<"number", 0>>,
     <<"number", 7>>, <<"number", 404>>, <<"number", 1001>>, <<"number", 1008>>,
     <<"number", 1009>>, <<"number", 1029>>}
FailureStatusCodes == {Undef, 0, 404, 418, 503, 1001}
FailureSubStatusCodes == {Undef, 3}
FailureMessages == {EmptyStr, <<" ">>, <<"boom">>}
FailureNames == {"Error", "AbortError", "TimeoutError"}
DefaultMessages == {EmptyStr, <<"x">>}

Failures ==
    {NullFailure} \cup
    {Failure(c[1], c[2], s, ss, m, n) :
        c \in FailureCodes, s \in FailureStatusCodes, ss \in FailureSubStatusCodes,
        m \in FailureMessages, n \in FailureNames}

\* buildError was not called yet
NoNorm == [done |-> FALSE, error |-> NullFailure, defaultMessage |-> EmptyStr,
           result |-> NoErr, redone |-> FALSE, defaultMessage2 |-> EmptyStr,
           result2 |-> NoErr]

\* the arguments of a call of buildError that has not returned yet
NormArgs ==
    {[NoNorm EXCEPT !.error = e, !.defaultMessage = d] :
        e \in Failures, d \in DefaultMessages}

\* buildError(norm.error, norm.defaultMessage) returns
Normalize ==
    /\ ~norm.done
    /\ norm' = [norm EXCEPT !.done = TRUE,
                            !.result = controllerBuildError(norm.error,
                                                            norm.defaultMessage)]
    /\ UNCHANGED <<mgrVars, inflight, ctl, calls, last, hist, items>>

\* the result of buildError is caught further up and passed to buildError
\* again, with the default message of that place
Renormalize(defaultMessage) ==
    /\ norm.done
    /\ ~norm.redone
    /\ defaultMessage \in DefaultMessages
    /\ norm' = [norm EXCEPT !.redone = TRUE,
                            !.defaultMessage2 = defaultMessage,
                            !.result2 = controllerBuildError(norm.result, defaultMessage)]
    /\ UNCHANGED <<mgrVars, inflight, ctl, calls, last, hist, items>>

(***************************************************************************)
(* The system.                                                             *)
(***************************************************************************)
Init ==
    /\ variant \in Variants
    /\ client = 0
    /\ config = NoConfig
    /\ isInitializing = FALSE
    /\ databaseCache = << >>
    /\ containerCache = << >>
    /\ inflight = {}
    /\ ctl = NoController
    /\ calls = 0
    /\ last = NoCall
    /\ hist = [built |-> 0, live |-> 0, dbOk |-> {}, ctOk |-> {}, ctOkStrict |-> {},
               ctAsked |-> {}, created |-> << >>]
    /\ items = << >>
    /\ norm = NoNorm

\* the manager with its caches: the callers pass the configurations of
\* LifecycleCfgs and ask for the container CtC
LifecycleCfgs == {ValidCfg, ValidCfg2, BadEndpointCfg}

Next ==
    \/ \E cfg \in LifecycleCfgs : Initialize(cfg)
    \/ \E db \in DbIds \cup {EmptyStr} : GetDatabase(db)
    \/ \E db \in DbIds \cup {EmptyStr}, pk \in {EmptyStr, PkId} : GetContainer(CtC, db, pk)
    \/ Dispose
    \/ \E c \in inflight, ok \in BOOLEAN, f \in StoreFailures : Resume(c, ok, f)

Spec == Init /\ [][Next]_vars

\* initialization: every configuration, from plain callers and from the
\* controllers' constructors, with the default database in the cache
NextInit ==
    \/ \E cfg \in ConfigsOf(variant) : Initialize(cfg)
    \/ \E cfg \in ConfigsOf(variant) : ControllerNew(cfg, DefaultImpl)
    \/ GetDatabase(EmptyStr)
    \/ Dispose
    \/ \E c \in inflight, ok \in BOOLEAN : Resume(c, ok, StoreUnavailable)

SpecInit == Init /\ [][NextInit]_vars

\* the controller and its handlers over the manager
NextCtl ==
    \/ Initialize(ValidCfg)
    \/ ControllerNew(ValidCfg, DefaultImpl)
    \/ \E hop \in Handlers : Handler(hop, Widget1)
    \/ Dispose
    \/ \E c \in inflight, ok \in BOOLEAN : Resume(c, ok, StoreUnavailable)
    \/ \E c \in inflight, ans \in {"ok", "none", "fail"} : ResumeHandler(c, ans, StoreUnavailable)

SpecCtl == Init /\ [][NextCtl]_vars

\* the handlers and the documents of the store: a controller is built for
\* ValidCfg and its handlers are called with the widgets of Widgets
NextWidget ==
    \/ Initialize(ValidCfg)
    \/ \E impl \in Impls(variant) : ControllerNew(ValidCfg, impl)
    \/ \E hop \in Handlers, w \in Widgets :
          (hop # "create" => w = Widget1) /\ Handler(hop, w)
    \/ \E c \in inflight, ok \in BOOLEAN : Resume(c, ok, StoreUnavailable)
    \/ \E c \in inflight, ans \in {"ok", "none", "fail"} :
          ResumeHandler(c, ans, StoreUnavailable)

SpecWidget == Init /\ [][NextWidget]_vars

\* the handlers called one after the other (each call when the one before it
\* has returned), on a manager that may be uninitialized or disposed of and
\* a store that may fail
NextRound ==
    \/ Initialize(ValidCfg)
    \/ \E impl \in Impls(variant) : ControllerNew(ValidCfg, impl)
    \/ Dispose
    \/ \E hop \in Handlers, w \in Widgets :
          inflight = {} /\ (hop # "create" => w = Widget1) /\ Handler(hop, w)
    \/ \E c \in inflight, ok \in BOOLEAN : Resume(c, ok, StoreUnavailable)
    \/ \E c \in inflight, ans \in {"ok", "none", "fail"} :
          ResumeHandler(c, ans, StoreUnavailable)

SpecRound == Init /\ [][NextRound]_vars

\* one container asked for under two partition-key paths
NextPk ==
    \/ Initialize(ValidCfg)
    \/ \E pk \in {EmptyStr, PkId, PkOther} : GetContainer(CtC, DbA, pk)
    \/ Dispose
    \/ \E c \in inflight, ok \in BOOLEAN : Resume(c, ok, StoreUnavailable)

SpecPk == Init /\ [][NextPk]_vars

\* the container cache under identifiers that contain '-': the callers ask
\* for the containers of CtIds in the databases of DbIds
NextKey ==
    \/ Initialize(ValidCfg)
    \/ \E db \in DbIds, ct \in CtIds, pk \in {EmptyStr, PkId} : GetContainer(ct, db, pk)
    \/ \E c \in inflight, ok \in BOOLEAN : Resume(c, ok, StoreUnavailable)

SpecKey == Init /\ [][NextKey]_vars

\* the error normalizer on every failure of Failures
InitErr ==
    /\ variant \in Variants
    /\ client = 0
    /\ config = NoConfig
    /\ isInitializing = FALSE
    /\ databaseCache = << >>
    /\ containerCache = << >>
    /\ inflight = {}
    /\ ctl = NoController
    /\ calls = 0
    /\ last = NoCall
    /\ hist = [built |-> 0, live |-> 0, dbOk |-> {}, ctOk |-> {}, ctOkStrict |-> {},
               ctAsked |-> {}, created |-> << >>]
    /\ items = << >>
    /\ norm \in NormArgs

NextErr ==
    \/ Normalize
    \/ \E d \in DefaultMessages : Renormalize(d)

SpecErr == InitErr /\ [][NextErr]_vars

(***************************************************************************)
(* Properties.  `last` is the call that completed last; last.hadClient     *)
(* tells whether the manager held a client when that call was made.        *)
(***************************************************************************)
ValidCfgs == {ValidCfg, ValidCfg2}

\* C1: whatever the number of calls of initialize with a valid configuration,
\* one client is constructed (one per life of the manager, from one dispose
\* to the next) and every call succeeds.
C1_OneClientConstructed ==
    /\ hist.live <= 1
    /\ (last.op = "initialize" /\ last.cfg \in ValidCfgs) => last.kind = "return"

\* C1: the manager of cosmos-client.ts has built a second client
C1_SecondClientConstructed ==
    /\ variant = "simple"
    /\ last.op = "initialize"
    /\ last.cfg = ValidCfg
    /\ hist.live = 2

\* C2: a call of initialize made while the manager holds a client succeeds and
\* leaves the client, the stored configuration and the two caches as they were.
C2_InitializeIdempotent ==
    [][(client # 0 /\ calls' = calls + 1 /\ last'.n = calls' /\ last'.op = "initialize")
       => /\ last'.kind = "return"
          /\ client' = client
          /\ config' = config
          /\ databaseCache' = databaseCache
          /\ containerCache' = containerCache]_vars

\* C2: a call of initialize made while a client was held has built another one
C2_ClientReplaced ==
    /\ last.op = "initialize"
    /\ last.hadClient
    /\ last.constructed
    /\ client # last.cl

\* C3: initialize on a manager without client fails, and constructs no client,
\* when a required field of the configuration is empty.
C3_RequiredFieldsChecked ==
    (last.op = "initialize" /\ ~last.hadClient /\ RequiredFieldsEmpty(variant, last.cfg))
    => (last.kind = "throw" /\ ~last.constructed /\ client = 0)

\* C3: initialize accepted a configuration without partition-key path
C3_EmptyPartitionKeyAccepted ==
    /\ variant = "aad"
    /\ last.op = "initialize"
    /\ last.cfg = NoPkCfg
    /\ last.kind = "return"
    /\ last.constructed
    /\ client # 0

\* the failure the try block of initialize raises for cfg, before its catch
configurationFailure(cfg) ==
    IF validateConfig(cfg) # EmptyStr THEN JsError(validateConfig(cfg))
    ELSE InvalidEndpointError

\* C4: a configuration failure raised in initialize reaches the caller of
\* initialize, and of the controller's constructor, as the Error that was
\* raised, with its own message: not normalized and not swallowed.
C4_ConfigurationErrorRaw ==
    (/\ variant # "simple"
     /\ last.op \in {"initialize", "new"}
     /\ last.op = "new" => (variant = "aad" /\ controllerArgError(last.cfg) = EmptyStr)
     /\ ~last.hadClient
     /\ initializeTry(last.cfg).kind = "throw")
    => (last.kind = "throw" /\ last.err = configurationFailure(last.cfg))

\* C4: the caller of initialize got the normalized value in place of the Error
C4_ConfigurationErrorNormalized ==
    /\ variant = "aad"
    /\ last.op = "initialize"
    /\ last.cfg = NoEndpointCfg
    /\ last.kind = "throw"
    /\ last.err = WidgetError(500, InitFailedMsg)
    /\ last.err # configurationFailure(last.cfg)

\* C5 speaks of a call of initialize that finds isInitializing set.  The flag
\* is set and cleared inside one block without await, so no call finds it set
\* and no call waits in the polling loop.
InitializingNeverObserved ==
    /\ ~isInitializing
    /\ \A c \in inflight : c.phase # "initWait"

\* C6: once a getDatabase for an id has succeeded and dispose has not been
\* called since, a getDatabase that resolves to that id returns the cached
\* handle without a request to the store.
C6_DatabaseServedFromCache ==
    (last.op = "getDatabase" /\ last.priorDb)
    => (last.kind = "return" /\ last.rts = 0)

\* C6: a getDatabase made after a successful one, with no dispose between the
\* two, was refused
C6_CachedDatabaseRefused ==
    /\ last.op = "getDatabase"
    /\ last.priorDb
    /\ last.kind = "throw"
    /\ last.err = JsError(NotInitializedMsg)
    /\ last.db \in DOMAIN databaseCache

\* C7: a getContainer for a pair (database id, container id), made after a
\* request for that pair has succeeded and with no dispose since that request
\* was made, returns the cached handle and sends no creation request.
C7_ContainerServedFromCache ==
    (last.op = "getContainer" /\ last.priorCt)
    => (last.kind = "return" /\ last.rts = 0 /\ last.handle # NoHandle)

\* C7: a pair was asked for again and served from the cache
C7_SamePairTwice ==
    /\ last.op = "getContainer"
    /\ last.priorCt
    /\ last.kind = "return"
    /\ last.rts = 0
    /\ last.handle = containerCache[last.key]

\* C7 as stated, for requests that do not overlap: no creation request is sent
\* for a pair for which one was sent, and answered, before.
C7_NoSecondCreationRequest ==
    \A c \in inflight : c.phase = "ctWait" => ~c.again

\* C8: before a client was ever constructed, getDatabase and getContainer fail
\* with the 'not initialized' error, send nothing to the store and leave
\* the two caches empty.
C8_NotInitializedError ==
    hist.built = 0
    => /\ databaseCache = << >>
       /\ containerCache = << >>
       /\ \A c \in inflight : c.rts = 0
       /\ last.op \in {"getDatabase", "getContainer"}
          => (last.kind = "throw" /\ last.rts = 0 /\ last.err.message = NotInitializedMsg)

\* C8: getContainer before initialize failed with another message
C8_OtherMessage ==
    /\ hist.built = 0
    /\ last.op = "getContainer"
    /\ last.ct = CtC
    /\ last.db = DbA
    /\ last.kind = "throw"
    /\ last.rts = 0
    /\ last.err.message # NotInitializedMsg

\* C9: a handler called while the manager is disposed (it had a client and
\* holds none now) fails with the 'not initialized' error.
C9_HandlerAfterDispose ==
    (last.hop \in Handlers /\ ~last.hadClient /\ hist.built > 0)
    => (last.kind = "error" /\ last.err.message = NotInitializedMsg)

\* C9: a handler called on the disposed manager got its answer from the store
C9_HandlerServedAfterDispose ==
    /\ last.hop \in Handlers
    /\ ~last.hadClient
    /\ hist.built > 0
    /\ last.kind = "return"
    /\ last.handle = ctl.container

\* C10: dispose returns in every state of the manager; when it has returned
\* the manager holds no client and its two caches are empty; called right
\* after another dispose it changes nothing.
C10_DisposeClears ==
    [][(calls' = calls + 1 /\ last'.n = calls' /\ last'.op = "dispose")
       => /\ last'.kind = "return"
          /\ client' = 0
          /\ databaseCache' = << >>
          /\ containerCache' = << >>
          /\ last.op = "dispose" => UNCHANGED mgrVars]_vars

\* C10: dispose was called on a manager without client, nothing has completed
\* since, and the database cache holds an entry
C10_DisposeLeftEntry ==
    /\ last.op = "dispose"
    /\ ~last.hadClient
    /\ inflight = {}
    /\ client = 0
    /\ databaseCache # << >>

\* the plain value {code, message} the normalizer returns
IsNormalized(e) == e = WidgetError(e.code, e.message)

\* C11: a getContainer that fails at the resolution of its database or at the
\* creation of its container throws a normalized {code, message} value (in the
\* managers of part_000 and part_001), and the step in which it fails leaves
\* the container cache as it was.
C11_FailedGetContainer ==
    [][(/\ last'.n # last.n
        /\ last'.op = "getContainer"
        /\ last'.kind = "throw"
        /\ getContainerArgError(last'.db, last'.ct) = EmptyStr)
       => /\ containerCache' = containerCache
          /\ variant # "simple" => IsNormalized(last'.err)]_vars

\* C11: a getContainer failed at the creation of the container, after its
\* database was resolved, and its key is not in the container cache
C11_CreationFailed ==
    /\ variant # "simple"
    /\ last.op = "getContainer"
    /\ last.kind = "throw"
    /\ last.rts = 2
    /\ last.err = WidgetError(503, errorMap(503))
    /\ last.db \in DOMAIN databaseCache
    /\ last.key \notin DOMAIN containerCache

\* the call made in the step, if the step is the making of a call
IssuedCall == {c \in (inflight' \ inflight) \cup {last'} : c.n = calls + 1 /\ calls' = calls + 1}

\* C12: a getContainer for a pair whose key is in the container cache, with a
\* partition-key path other than the one the cached handle was created with,
\* returns the cached handle in the same step and sends nothing to the store.
C12_FirstPathWins ==
    [][\A c \in IssuedCall :
          (/\ c.op = "getContainer"
           /\ getContainerArgError(c.db, c.ct) = EmptyStr
           /\ c.key \in DOMAIN containerCache
           /\ containerCache[c.key].pk # c.pk)
          => /\ c = last'
             /\ c.kind = "return"
             /\ c.handle = containerCache[c.key]
             /\ c.rts = 0
             /\ inflight' = inflight
             /\ containerCache' = containerCache]_vars

\* C12: a container created under "/id" was handed to a call that passed "/pk"
C12_OtherPathServed ==
    /\ last.op = "getContainer"
    /\ last.kind = "return"
    /\ last.rts = 0
    /\ last.pk = PkOther
    /\ last.handle.pk = PkId
    /\ last.key \in DOMAIN containerCache
    /\ containerCache[last.key] = last.handle

\* the normalizer of part_000 / part_001 has returned for a failure that is
\* not null
Normalized == norm.done /\ variant # "simple" /\ ~norm.error.isNull

\* what rule 2 gives: the status code; the table's message for it, else the
\* failure's own message, else the default message
Rule2Result ==
    WidgetError(norm.error.statusCode,
                IF norm.error.statusCode \in ErrorMapCodes
                THEN errorMap(norm.error.statusCode)
                ELSE IF norm.error.message # EmptyStr THEN norm.error.message
                ELSE norm.defaultMessage)

\* C13 (as stated): a failure that carries a vendor code (of any type) and a
\* numeric status code is normalized by rule 2, whatever its name
C13_Rule2WhenBothPresent ==
    (Normalized /\ norm.error.codeT # "undefined" /\ norm.error.statusCode # Undef)
    => norm.result = Rule2Result

\* C13 (amended): a failure whose vendor code and status code are both truthy
\* (not 0, not the empty string) is normalized by rule 2, whatever its name:
\* rule 2 comes before the abort/timeout rule
C13_Rule2WhenBothTruthy ==
    (Normalized /\ TruthyCode(norm.error) /\ TruthyStatus(norm.error))
    => norm.result = Rule2Result

\* a TimeoutError with a vendor code and status code 418 keeps its own message
C13_TimeoutWithBoth ==
    /\ Normalized
    /\ norm.error.name = "TimeoutError"
    /\ norm.error.codeT = "string" /\ norm.error.code = 1
    /\ norm.error.statusCode = 418
    /\ norm.error.message = <<"boom">>
    /\ norm.result = WidgetError(418, <<"boom">>)

\* C14: a failure named AbortError or TimeoutError that rule 2 does not match
\* is normalized to code 504 with the fixed gateway-timeout message, also when
\* it has a numeric statusCode or a numeric vendor code
C14_TimeoutIs504 ==
    (/\ Normalized
     /\ norm.error.name \in {"AbortError", "TimeoutError"}
     /\ ~(TruthyCode(norm.error) /\ TruthyStatus(norm.error)))
    => norm.result = WidgetError(504, <<"Gateway timeout: CosmosDB operation timed out">>)

\* a TimeoutError with status code 404 and no vendor code
C14_TimeoutWithStatus ==
    /\ Normalized
    /\ norm.error.name = "TimeoutError"
    /\ norm.error.codeT = "undefined"
    /\ norm.error.statusCode = 404
    /\ norm.result.code = 504

\* no rule before rule 4 takes the failure: it is not null, rule 2 does not
\* match it and its name is not one of abort/timeout
ReachesRule4 ==
    /\ norm.done
    /\ ~norm.error.isNull
    /\ ~(TruthyCode(norm.error) /\ TruthyStatus(norm.error))
    /\ norm.error.name \notin {"AbortError", "TimeoutError"}

\* "<Store> error: statusCode=<n>[, subStatusCode=<m>][ - <original message>]"
SynthesizedMessage ==
    <<"Cosmos DB error: statusCode=", ToString(norm.error.statusCode)>>
    \o (IF norm.error.subStatusCode # Undef
        THEN <<", subStatusCode=", ToString(norm.error.subStatusCode)>> ELSE << >>)
    \o (IF IsBlank(norm.error.message) THEN << >> ELSE <<" - ">> \o norm.error.message)

\* C15: a failure with a numeric statusCode that reaches rule 4 gets that
\* status code as its code; its message is the table's message when the status
\* code is in the table, and the synthesized message otherwise
C15_Rule4StatusCode ==
    (ReachesRule4 /\ norm.error.statusCode # Undef)
    => norm.result = WidgetError(norm.error.statusCode,
                                 IF norm.error.statusCode \in ErrorMapCodes
                                 THEN errorMap(norm.error.statusCode)
                                 ELSE SynthesizedMessage)

\* {statusCode: 404} with default "x" normalized without the table's message
C15_NotFoundWithoutTableMessage ==
    /\ norm.done
    /\ norm.error = Failure("undefined", 0, 404, Undef, EmptyStr, "Error")
    /\ norm.defaultMessage = <<"x">>
    /\ norm.result = WidgetError(404, <<"Cosmos DB error: statusCode=", "404">>)

\* C15, part_000 / part_001 alone: rule 4 as stated
C15_Rule4StatusCodeKeyed ==
    (ReachesRule4 /\ variant # "simple" /\ norm.error.statusCode # Undef)
    => norm.result = WidgetError(norm.error.statusCode,
                                 IF norm.error.statusCode \in ErrorMapCodes
                                 THEN errorMap(norm.error.statusCode)
                                 ELSE SynthesizedMessage)

\* 1001 -> 404, 1008 -> 408, 1009 -> 409, 1029 -> 429, others unchanged
Rule5Code ==
    CASE norm.error.code = 1001 -> 404
      [] norm.error.code = 1008 -> 408
      [] norm.error.code = 1009 -> 409
      [] norm.error.code = 1029 -> 429
      [] OTHER -> norm.error.code

\* C16: a failure with a numeric vendor code and no statusCode that reaches
\* rule 5 gets the mapped code; its message is its own message if it has
\* one, else the table's message for the mapped code, else the default message
C16_Rule5VendorCode ==
    (ReachesRule4 /\ norm.error.statusCode = Undef /\ norm.error.codeT = "number")
    => norm.result = WidgetError(Rule5Code,
                                 IF norm.error.message # EmptyStr THEN norm.error.message
                                 ELSE IF Rule5Code \in ErrorMapCodes THEN errorMap(Rule5Code)
                                 ELSE norm.defaultMessage)

\* {code: 1029} with default "x" normalized to the default message
C16_ThrottledWithDefaultMessage ==
    /\ norm.done
    /\ norm.error = Failure("number", 1029, Undef, Undef, EmptyStr, "Error")
    /\ norm.defaultMessage = <<"x">>
    /\ norm.result = WidgetError(429, <<"x">>)

\* C16, part_000 / part_001 alone: rule 5 as stated
C16_Rule5VendorCodeKeyed ==
    (/\ ReachesRule4 /\ variant # "simple"
     /\ norm.error.statusCode = Undef /\ norm.error.codeT = "number")
    => norm.result = WidgetError(Rule5Code,
                                 IF norm.error.message # EmptyStr THEN norm.error.message
                                 ELSE IF Rule5Code \in ErrorMapCodes THEN errorMap(Rule5Code)
                                 ELSE norm.defaultMessage)

\* the string part occurs in the string whole
Contains(whole, part) ==
    \E i \in 1..(Len(whole) - Len(part) + 1) :
        SubSeq(whole, i, i + Len(part) - 1) = part

\* the step in which a handler returns
HandlerReturns == last'.n # last.n /\ last'.hop # ""

\* C17: a create for an id that is stored already returns an error value
\* with code 409 whose message contains the id, and leaves the stored
\* document as it was
C17_CreateExistingIs409 ==
    [][(HandlerReturns /\ last'.hop = "create" /\ last'.store = "conflict")
       => /\ last'.kind = "error"
          /\ last'.err.code = 409
          /\ Contains(last'.err.message, last'.id)
          /\ items' = items]_vars

\* a create for a stored id returned code 409 with a message without the id
C17_ConflictWithoutId ==
    /\ last.hop = "create" /\ last.store = "conflict"
    /\ last.kind = "error" /\ last.err.code = 409
    /\ ~Contains(last.err.message, last.id)
    /\ ItemKey(last) \in DOMAIN items

\* C18: a read or delete for an id that is not stored returns an error value
\* with code 404 whose message contains the id, whether the store answers
\* without a resource or throws a 404 failure
C18_MissingIs404 ==
    (last.hop \in {"read", "delete"} /\ last.store \in {"none", "notfound"})
    => /\ last.kind = "error"
       /\ last.err.code = 404
       /\ Contains(last.err.message, last.id)

\* a read for an id that is not stored returned code 404 with a message
\* without the id
C18_NotFoundWithoutId ==
    /\ last.hop = "read" /\ last.store = "none"
    /\ last.kind = "error" /\ last.err.code = 404
    /\ ~Contains(last.err.message, last.id)

\* C19: every record list, read and create return on their success path has
\* exactly the keys id, weight and color
C19_ExactlyWidgetKeys ==
    (last.hop \in {"list", "read", "create"} /\ last.kind = "return")
    => \A r \in last.value : r.keys = WidgetKeys

\* a read returned the stored document with the properties the store added
C19_ReadReturnsSystemKeys ==
    /\ last.hop = "read" /\ last.kind = "return"
    /\ \E r \in last.value : SystemKeys \subseteq r.keys

\* C20: in the controllers of widgets-cosmos.ts, a read of an id for which
\* create(w) reached the store, with no delete of the id since, returns
\* exactly w (unless the store fails the read)
C20_ReadReturnsCreated ==
    [][(/\ HandlerReturns /\ variant # "key"
        /\ last'.hop = "read" /\ last'.store # "fail"
        /\ ItemKey(last') \in DOMAIN hist.created)
       => /\ last'.kind = "return"
          /\ last'.value = {Document(hist.created[ItemKey(last')], WidgetKeys)}]_vars

\* a read returned the widget {w1, 2, blue} created before
C20_ReadAfterCreate ==
    /\ variant # "key"
    /\ last.hop = "read" /\ last.kind = "return"
    /\ ItemKey(last) \in DOMAIN hist.created
    /\ hist.created[ItemKey(last)] = Widget2
    /\ last.value = {[id |-> W1, weight |-> 2, color |-> "blue", keys |-> WidgetKeys]}

\* C21: list, read, create and delete never throw: whatever the store and the
\* manager answer (the manager uninitialized or failing to resolve the
\* container included), a handler ends by returning its success payload or
\* an error {code, message}
C21_HandlersNeverThrow ==
    last.hop # ""
    => /\ last.kind \in {"return", "error"}
       /\ last.kind = "error" => IsNormalized(last.err)
       /\ last.kind = "return" => last.err = NoErr

\* a handler called on an uninitialized manager returned an error value
C21_ReturnedWithoutClient ==
    /\ last.hop # "" /\ last.kind = "error"
    /\ ~last.hadClient /\ client = 0
    /\ last.ops = 0
    /\ IsNormalized(last.err)

\* C22: a handler that has its container sends exactly one request to the
\* store, and returns at once when that request fails
C22_ExactlyOneOperation ==
    (last.hop # "" /\ last.ops > 0)
    => /\ last.ops = 1
       /\ last.store = "fail" => last.kind = "error"

\* a create of main.tsp returned the created widget after two requests
C22_ReadThenCreate ==
    /\ last.impl = "result" /\ last.hop = "create"
    /\ last.kind = "return" /\ last.value # {}
    /\ last.ops = 2

\* C22, the controllers of widgets-cosmos.ts and part_002 alone
C22_ExactlyOneOperationCosmos ==
    (last.hop # "" /\ last.ops > 0 /\ last.impl # "result")
    => /\ last.ops = 1
       /\ last.store = "fail" => last.kind = "error"

\* C22, no retry alone: in every controller a failed request ends the
\* handler with an error
C22_NoRetry ==
    (last.hop # "" /\ last.store = "fail") => last.kind = "error"

\* C23: when the store fails a handler's request (here with StoreUnavailable,
\* which is neither the 409 of create nor the 404 of read and delete), the
\* handler returns what buildError gives for that failure and the handler's
\* default message, in every controller
C23_FailureIsNormalized ==
    (last.hop # "" /\ last.store = "fail")
    => /\ last.kind = "error"
       /\ last.err = controllerBuildError(StoreUnavailable,
                                          operationMessage(last.hop, last.id))

\* a list of main.tsp returned {503, "Failed to list widgets"} for the
\* failure {statusCode: 503}
C23_ListFailedUnnormalized ==
    /\ last.impl = "result" /\ last.hop = "list" /\ last.store = "fail"
    /\ last.kind = "error"
    /\ last.err = WidgetError(503, <<"Failed to list widgets">>)
    /\ last.err # buildError(StoreUnavailable, <<"Failed to list widgets">>)
    /\ last.err # buildErrorSimple(StoreUnavailable, <<"Failed to list widgets">>)

\* C23, the controllers of widgets-cosmos.ts and part_002 alone
C23_FailureIsNormalizedCosmos ==
    (last.hop # "" /\ last.store = "fail" /\ last.impl # "result")
    => /\ last.kind = "error"
       /\ last.err = controllerBuildError(StoreUnavailable,
                                          operationMessage(last.hop, last.id))

\* C24: when a call of initialize (part_000, part_001) returns, the manager
\* holds a client.  This covers a call that waited for another call's
\* initialization; no call does wait (InitializingNeverObserved).
C24_InitializedMeansClient ==
    [][(/\ last'.n # last.n /\ last'.op = "initialize" /\ last'.kind = "return"
        /\ variant # "simple")
       => client' # 0]_vars

\* initialize returned after an earlier initialize had failed on its endpoint
C24_InitializedAfterFailure ==
    /\ variant # "simple"
    /\ last.op = "initialize" /\ last.kind = "return" /\ last.constructed
    /\ last.n > 1 /\ hist.built = 1
    /\ client # 0

\* C25: whenever the manager holds no client, the database cache and the
\* container cache are empty, however initialize, getDatabase, getContainer
\* and dispose interleave at their awaits
C25_NoClientNoCache ==
    client = 0 => databaseCache = << >> /\ containerCache = << >>

\* a getDatabase that was suspended when dispose ran has returned and left
\* its handle in the cache of a manager without client
C25_InsertedAfterDispose ==
    /\ client = 0
    /\ last.op = "getDatabase" /\ last.kind = "return" /\ last.disposed
    /\ last.db \in DOMAIN databaseCache
    /\ databaseCache[last.db] = last.handle
    /\ last.handle.cl # 0

\* the getContainer calls for the pair (db, ct) that wait for the store to
\* answer a creation request: for the database / for the container
CreatingDatabase(db, ct) ==
    {c \in inflight : c.phase = "ctDbWait" /\ c.db = db /\ c.ct = ct}
CreatingContainer(db, ct) ==
    {c \in inflight : c.phase = "ctWait" /\ c.db = db /\ c.ct = ct}

\* C26: getContainer calls for one pair that overlap send the store at most
\* one database-creation request and at most one container-creation request
\* between them, so no two of them wait for such a request at the same time
C26_OneCreationRequest ==
    \A c \in inflight :
        /\ Cardinality(CreatingDatabase(c.db, c.ct)) <= 1
        /\ Cardinality(CreatingContainer(c.db, c.ct)) <= 1

\* two getContainer calls for the pair (a, c) each wait for the container
\* they asked the store to create, and the handles they will return differ
C26_TwoCreationRequests ==
    \E c, d \in CreatingContainer(DbA, CtC) :
        /\ c.n # d.n
        /\ c.key = d.key
        /\ c.key \notin DOMAIN containerCache
        /\ ContainerHandle(c) # ContainerHandle(d)

\* C27: the cache key is injective on pairs (database id, container id), so
\* the handle a getContainer returns is a handle of the pair it was called
\* for, also when the identifiers contain '-'
C27_HandleOfRequestedPair ==
    (last.op = "getContainer" /\ last.kind = "return")
    => last.handle.db = last.db /\ last.handle.ct = last.ct

\* getContainer for (a-b, c) returned the cached handle of (a, b-c), or the
\* other way round
C27_HandleOfOtherPair ==
    /\ last.op = "getContainer" /\ last.kind = "return" /\ last.rts = 0
    /\ <<last.db, last.ct>> \in {<<DbAB, CtC>>, <<DbA, CtBC>>}
    /\ <<last.handle.db, last.handle.ct>> \in {<<DbAB, CtC>>, <<DbA, CtBC>>}
    /\ <<last.handle.db, last.handle.ct>> # <<last.db, last.ct>>
    /\ cacheKey(last.db, last.ct) = cacheKey(last.handle.db, last.handle.ct)

\* C28: buildError (part_000 / part_001) applied to its own result gives
\* that result again, for every failure and every two default messages
C28_RenormalizeIsIdentity ==
    (norm.redone /\ variant # "simple") => norm.result2 = norm.result

\* the failure {statusCode: 1001} is normalized to code 1001 and, normalized
\* again, to code 404
C28_RenormalizedCodeChanged ==
    /\ norm.redone /\ variant # "simple"
    /\ norm.error.statusCode = 1001 /\ norm.error.codeT = "undefined"
    /\ norm.result.code = 1001
    /\ norm.result2.code = 404

\* C28, for the failures and messages that occur in the managers: a default
\* message that is not empty and a status code that is none of the vendor
\* codes 1001, 1008, 1009, 1029
C28_RenormalizeIsIdentityHttp ==
    (/\ norm.redone /\ variant # "simple"
     /\ norm.defaultMessage # EmptyStr
     /\ norm.result.code \notin {1001, 1008, 1009, 1029})
    => norm.result2 = norm.result

\* C29: every handler call, the first one of a controller as well as the later
\* ones, sends its request to the container that the controller's configured
\* (databaseId, containerId) names
C29_ConfiguredContainer ==
    \A c \in inflight :
        (c.hop # "" /\ c.phase = "opWait")
        => c.handle.db = c.cfg.databaseId /\ c.handle.ct = c.cfg.containerId

\* the first handler call of a part_002 controller waits for the store with
\* the container that is named by the endpoint, in the database that is named
\* by the configured containerId
C29_FirstCallOtherContainer ==
    \E c \in inflight :
        /\ variant = "key" /\ c.hop # "" /\ c.phase = "opWait"
        /\ c.handle.ct = <<c.cfg.endpoint>>
        /\ c.handle.db = c.cfg.containerId
        /\ c.handle.ct # c.cfg.containerId

\* C29 for the controllers of widgets-cosmos.ts and main.tsp
C29_ConfiguredContainerCosmos ==
    \A c \in inflight :
        (variant # "key" /\ c.hop # "" /\ c.phase = "opWait")
        => c.handle.db = c.cfg.databaseId /\ c.handle.ct = c.cfg.containerId

\* a create call returns after the store has answered its last request:
\* wrote = the store has written the call's record, taken = the id was
\* stored already (found by the read before the create, or by the create)
CreateWrote == HandlerReturns /\ last'.hop = "create"
               /\ last'.req = "create" /\ last'.store = "ok"
CreateTaken == HandlerReturns /\ last'.hop = "create"
               /\ \/ last'.req = "create" /\ last'.store = "conflict"
                  \/ last'.req = "read" /\ last'.store = "ok"
CreateOutcome ==
    /\ CreateWrote
       => /\ ItemKey(last') \notin DOMAIN items
          /\ items'[ItemKey(last')] = storedDocument(last'.w)
          /\ last'.kind = "return"
          /\ last'.value = {documentToWidgetPick(storedDocument(last'.w))}
    /\ CreateTaken
       => /\ ItemKey(last') \in DOMAIN items
          /\ items' = items
          /\ last'.kind = "error"
          /\ last'.err.code = 409
          /\ Contains(last'.err.message, last'.id)

\* C30: of the create calls of WidgetsCosmosImpl (widgets-cosmos.ts and
\* main.tsp) that run at the same time for one absent id, the one whose
\* record the store writes returns that record, and every other one returns
\* an error with code 409 whose message contains the id
C30_OneCreateWins ==
    [][variant = "simple" => CreateOutcome]_vars

\* two create calls of widgets-cosmos.ts for one id overlapped: the later
\* call wrote its record and returned, then the earlier call returned code
\* 409 with a message without the id
C30_LoserWithoutId ==
    /\ variant = "simple" /\ last.impl = "impl"
    /\ last.hop = "create" /\ last.store = "conflict"
    /\ last.n < calls /\ inflight = {}
    /\ ItemKey(last) \in DOMAIN items
    /\ items[ItemKey(last)] = storedDocument(Widget2)
    /\ last.w = Widget1
    /\ last.kind = "error" /\ last.err.code = 409
    /\ ~Contains(last.err.message, last.id)

\* C30 for main.tsp, which reads for existence before it creates
C30_OneCreateWinsResult ==
    [][(variant = "simple" /\ last'.impl = "result") => CreateOutcome]_vars

\* in main.tsp two create calls both read the id as absent; the later call
\* wrote its record, then the create of the earlier call met it
C30_BothReadAbsent ==
    /\ variant = "simple" /\ last.impl = "result"
    /\ last.hop = "create" /\ last.req = "create" /\ last.store = "conflict"
    /\ last.n < calls /\ inflight = {}
    /\ items[ItemKey(last)] = storedDocument(Widget2)
    /\ last.w = Widget1
    /\ last.kind = "error" /\ last.err.code = 409
    /\ Contains(last.err.message, last.id)

====
